---- MODULE Spec2Model ----
(***************************************************************************)
(* FetchNode (scrapegraphai/nodes/fetch_node.py): a pipeline node that     *)
(* reads one source reference from the shared state, acquires it (verbatim,*)
(* local clean-up, static HTTP GET, or headless-browser render) and writes *)
(* a one-element list of Document under its output key.                    *)
(*                                                                         *)
(* Representation.  Python strings whose characters the code inspects are  *)
(* tuples of one-character strings.  An optional value (a dict entry that  *)
(* may be missing, None, "no exception") is a tuple of length 0 or 1.      *)
(* The external capabilities (requests.get, AsyncChromiumLoader.load,      *)
(* cleanup_html) answer as the environment record `env` of each call says. *)
(***************************************************************************)
EXTENDS Integers, Sequences, FiniteSets, TLC

\* ---------------------------------------------------------------- bounds
\* most elements in a parsed response body
MaxElems == 2

\* ---------------------------------------------------------------- values
Absent == <<>>
Some(v) == <<v>>

\* dict.get(key, default) on an optional entry
Get(entry, default) == IF entry = Absent THEN default ELSE entry[1]

\* str.startswith(prefix)
StartsWith(s, prefix) ==
    /\ Len(s) >= Len(prefix)
    /\ SubSeq(s, 1, Len(prefix)) = prefix

HTTP == <<"h", "t", "t", "p">>
HTTP_SCHEME == <<"h", "t", "t", "p", ":", "/", "/">>
HTTPS_SCHEME == <<"h", "t", "t", "p", "s", ":", "/", "/">>

\* the source references a pipeline may hand to the node
References ==
    { <<>>,
      <<"<", "p", ">">>,
      <<"h", "t", "t">>,
      <<"f", "t", "p", ":", "/", "/", "s">>,
      HTTP,
      HTTP \o <<"d", ".", "c", "f">>,
      HTTP_SCHEME \o <<"s">>,
      HTTPS_SCHEME \o <<"s">> }

\* a parsed element of a response body: tag name and its optional href attribute
Elements ==
    { [name |-> "a", href |-> Some("/a")],
      [name |-> "a", href |-> Some("/b")],
      [name |-> "a", href |-> Absent],
      [name |-> "link", href |-> Some("/a")] }

RECURSIVE Bodies(_)
Bodies(n) ==
    IF n = 0 THEN {<<>>}
    ELSE LET shorter == Bodies(n - 1)
         IN shorter \cup {Append(b, e) : b \in shorter, e \in Elements}

\* markup: a Python str given by its characters, an HTML text given by the
\* elements it parses to, or the prettified rendering of a parsed body
Text(chars) == [kind |-> "text", chars |-> chars, elems |-> <<>>]
Html(elems) == [kind |-> "html", chars |-> <<>>, elems |-> elems]

\* BeautifulSoup(text, 'html.parser') and soup.prettify()
BeautifulSoup(text) == text.elems
prettify(soup) == [kind |-> "prettified", chars |-> <<>>, elems |-> soup]

RenderedPages == {Text(<<"<", "p", ">">>), Text(<<"<", "a", ">">>)}

\* what requests.get, loader.load and cleanup_html do in one invocation
\* (the Cleaner's rejections are sampled on one body and on every page)
GetEnvs ==
    { [get_raises |-> TRUE, status_code |-> 0, text |-> Html(<<>>),
       load_raises |-> FALSE, page |-> Text(<<>>), clean_raises |-> FALSE] }
    \cup
    { [get_raises |-> FALSE, status_code |-> s, text |-> Html(<<>>),
       load_raises |-> FALSE, page |-> Text(<<>>), clean_raises |-> FALSE]
        : s \in {404, 500} }
    \cup
    { [get_raises |-> FALSE, status_code |-> 200, text |-> Html(b),
       load_raises |-> FALSE, page |-> Text(<<>>), clean_raises |-> FALSE]
        : b \in Bodies(MaxElems) }
    \cup
    { [get_raises |-> FALSE, status_code |-> 200, text |-> Html(<<>>),
       load_raises |-> FALSE, page |-> Text(<<>>), clean_raises |-> TRUE] }

LoadEnvs ==
    { [get_raises |-> FALSE, status_code |-> 200, text |-> Html(<<>>),
       load_raises |-> TRUE, page |-> Text(<<>>), clean_raises |-> FALSE] }
    \cup
    { [get_raises |-> FALSE, status_code |-> 200, text |-> Html(<<>>),
       load_raises |-> FALSE, page |-> p, clean_raises |-> c]
        : p \in RenderedPages, c \in BOOLEAN }

Envs == GetEnvs \cup LoadEnvs

\* ---------------------------------------------------------------- documents
\* cleanup_html(html_content, urls): the Cleaner capability, kept symbolic
cleanup_html(html, urls) == [cleaned |-> TRUE, markup |-> html, links |-> urls]

\* a str used as page_content untouched
Raw(chars) == [cleaned |-> FALSE, markup |-> Text(chars), links |-> <<>>]

NoContent == [cleaned |-> FALSE, markup |-> Text(<<>>), links |-> <<>>]

\* langchain Document(page_content=..., metadata=...); metadata is a set of
\* <<key, value>> pairs and defaults to the empty dict
Document(page_content, metadata) ==
    [page_content |-> page_content, metadata |-> metadata]

LocalDirMeta == {<<"source", "local_dir">>}
NoMeta == {}

\* ---------------------------------------------------------------- state map
Keys == {"url", "json_dir", "xml_dir", "csv_dir", "doc", "parsed_doc"}
InputExprs == {"url", "json_dir", "xml_dir", "csv_dir"}

NoValue == [tag |-> "absent", str |-> <<>>, docs |-> <<>>]
StrValue(chars) == [tag |-> "str", str |-> chars, docs |-> <<>>]
DocsValue(docs) == [tag |-> "docs", str |-> <<>>, docs |-> docs]

\* ---------------------------------------------------------------- exceptions
Exception(type) == [type |-> type, url |-> Absent, status |-> Absent]

\* ---------------------------------------------------------------- call log
\* one entry per capability call or state write, in the order made; a get or
\* load entry carries what the capability returned, if it returned
GetCall(url, status, result) ==
    [op |-> "get", url |-> url, status |-> status, result |-> result,
     proxy |-> Absent, headless |-> TRUE, content |-> NoContent]
LoadCall(url, proxy, headless, result) ==
    [op |-> "load", url |-> url, status |-> Absent, result |-> result,
     proxy |-> proxy, headless |-> headless, content |-> NoContent]
CleanCall(html, urls) ==
    [op |-> "clean", url |-> <<>>, status |-> Absent, result |-> Absent,
     proxy |-> Absent, headless |-> TRUE, content |-> cleanup_html(html, urls)]
UpdateCall ==
    [op |-> "update", url |-> <<>>, status |-> Absent, result |-> Absent,
     proxy |-> Absent, headless |-> TRUE, content |-> NoContent]

\* ---------------------------------------------------------------- the node
Endpoints == {"proxy:8080"}

\* the node_config dicts a caller may pass (a missing option is Absent)
NodeConfigDicts ==
    [useSoup : {Absent, Some(TRUE), Some(FALSE)},
     headless : {Absent, Some(FALSE)},
     verbose : {Absent},
     endpoint : {Absent} \cup {Some(e) : e \in Endpoints}]

\* node_config: Optional[dict] = None
NodeConfigs == {Absent} \cup {Some(d) : d \in NodeConfigDicts}

\* variant: an option missing from the dict makes useSoup false
FetchNode_init_dynamicDefault(input, output, node_config) ==
    [node_name |-> "Fetch",
     input |-> input,
     output |-> output,
     useSoup |-> IF node_config = Absent THEN TRUE
                 ELSE Get(node_config[1].useSoup, FALSE),
     headless |-> IF node_config = Absent THEN TRUE
                  ELSE Get(node_config[1].headless, TRUE),
     verbose |-> IF node_config = Absent THEN FALSE
                 ELSE Get(node_config[1].verbose, FALSE),
     node_config |-> Absent]

\* FetchNode.__init__: node_config is read for three flags and is not handed
\* to the base constructor, so the node_config attribute keeps the base
\* default None
FetchNode_init(input, output, node_config) ==
    [node_name |-> "Fetch",
     input |-> input,
     output |-> output,
     useSoup |-> IF node_config = Absent THEN TRUE
                 ELSE Get(node_config[1].useSoup, TRUE),
     headless |-> IF node_config = Absent THEN TRUE
                  ELSE Get(node_config[1].headless, TRUE),
     verbose |-> IF node_config = Absent THEN FALSE
                 ELSE Get(node_config[1].verbose, FALSE),
     node_config |-> Absent]

\* BaseNode.get_input_keys: the keys the input expression names
get_input_keys(self, state) == <<self.input>>

\* soup.find_all(name): the elements with that tag, in document order
find_all(soup, name) == SelectSeq(soup, LAMBDA e : e.name = name)

\* variant: each href is inserted at the front of the list
RECURSIVE link_urls_prepend(_)
link_urls_prepend(links) ==
    IF links = <<>> THEN <<>>
    ELSE LET link == Head(links)
             rest == link_urls_prepend(Tail(links))
         IN IF link.href # Absent THEN rest \o <<link.href[1]>> ELSE rest

\* the loop collecting link['href'] of every link that has the attribute
RECURSIVE link_urls(_)
link_urls(links) ==
    IF links = <<>> THEN <<>>
    ELSE LET link == Head(links)
             rest == link_urls(Tail(links))
         IN IF link.href # Absent THEN <<link.href[1]>> \o rest ELSE rest

\* variant: the prefix test comes before the test of the input kind
Branch_sniffFirst(self, source) ==
    IF StartsWith(source, HTTP)
    THEN IF self.useSoup THEN "static" ELSE "dynamic"
    ELSE IF self.input = "json_dir" \/ self.input = "xml_dir"
            \/ self.input = "csv_dir"
    THEN "literal"
    ELSE "local"

\* which arm of the if / elif chain runs
Branch(self, source) ==
    IF self.input = "json_dir" \/ self.input = "xml_dir" \/ self.input = "csv_dir"
    THEN "literal"
    ELSE IF ~StartsWith(source, HTTP) THEN "local"
    ELSE IF self.useSoup THEN "static"
    ELSE "dynamic"

Raised(type, calls) ==
    [raised |-> Some(Exception(type)), document |-> <<>>, calls |-> calls]
Built(document, calls) ==
    [raised |-> Absent, document |-> document, calls |-> calls]

\* page_content=source, metadata source local_dir
LiteralBranch(source) ==
    Built(<<Document(Raw(source), LocalDirMeta)>>, <<>>)

\* page_content=cleanup_html(source), metadata source local_dir
LocalBranch(source, env) ==
    LET calls == <<CleanCall(Text(source), <<>>)>>
    IN IF env.clean_raises THEN Raised("CleanupError", calls)
       ELSE Built(<<Document(cleanup_html(Text(source), <<>>), LocalDirMeta)>>,
                  calls)

\* requests.get(source); on 200 parse, collect hrefs, clean; otherwise the
\* print of an f-string naming the unbound identifier url
StaticBranch(source, env) ==
    IF env.get_raises
    THEN Raised("RequestException", <<GetCall(source, Absent, Absent)>>)
    ELSE LET get == GetCall(source, Some(env.status_code), Some(env.text))
         IN IF env.status_code = 200
            THEN LET soup == BeautifulSoup(env.text)
                     links == find_all(soup, "a")
                     urls == link_urls(links)
                     calls == <<get, CleanCall(prettify(soup), urls)>>
                 IN IF env.clean_raises THEN Raised("CleanupError", calls)
                    ELSE Built(<<Document(cleanup_html(prettify(soup), urls),
                                          NoMeta)>>,
                               calls)
            ELSE Raised("NameError", <<get>>)

\* variant: the rendered page is wrapped without the clean-up pass
DynamicBranch_raw(self, source, env) ==
    LET load == LoadCall(source, Absent, self.headless, Some(env.page))
    IN IF env.load_raises
       THEN Raised("LoaderError",
                   <<LoadCall(source, Absent, self.headless, Absent)>>)
       ELSE Built(<<Document([cleaned |-> FALSE, markup |-> env.page,
                              links |-> <<>>], NoMeta)>>,
                  <<load>>)

\* AsyncChromiumLoader([source], proxies?, headless).load(), then clean of
\* str(document[0].page_content)
DynamicBranch(self, source, env) ==
    LET proxy == IF self.node_config # Absent
                    /\ self.node_config[1].endpoint # Absent
                 THEN Some(self.node_config[1].endpoint[1])
                 ELSE Absent
    IN IF env.load_raises
       THEN Raised("LoaderError",
                   <<LoadCall(source, proxy, self.headless, Absent)>>)
       ELSE LET calls == <<LoadCall(source, proxy, self.headless, Some(env.page)),
                           CleanCall(env.page, <<>>)>>
            IN IF env.clean_raises THEN Raised("CleanupError", calls)
               ELSE Built(<<Document(cleanup_html(env.page, <<>>), NoMeta)>>,
                          calls)

\* variant: the state is rebuilt around the new entry
update_rebuild(state, key, value) ==
    [k \in DOMAIN state |-> IF k = key THEN value ELSE NoValue]

\* variant: the new documents are appended to the list already stored
update_append(state, key, value) ==
    IF state[key].tag = "docs"
    THEN [state EXCEPT ![key] = DocsValue(state[key].docs \o value.docs)]
    ELSE [state EXCEPT ![key] = value]

\* state.update({key: value})
update(state, key, value) == [state EXCEPT ![key] = value]

\* variant: the update sits in a finally clause
Finish_finally(self, state, br) ==
    LET st == [state EXCEPT ![self.output[1]] = DocsValue(br.document)]
    IN IF br.raised # Absent
       THEN [raised |-> br.raised, state |-> st, ret |-> Absent,
             calls |-> Append(br.calls, UpdateCall)]
       ELSE [raised |-> Absent, state |-> st, ret |-> Some(st),
             calls |-> Append(br.calls, UpdateCall)]

\* the tail of execute: an exception leaves before the update; otherwise
\* state.update({self.output[0]: compressed_document}); return state
Finish(self, state, br) ==
    IF br.raised # Absent
    THEN [raised |-> br.raised, state |-> state, ret |-> Absent,
          calls |-> br.calls]
    ELSE LET st == update(state, self.output[1], DocsValue(br.document))
         IN [raised |-> Absent, state |-> st, ret |-> Some(st),
             calls |-> Append(br.calls, UpdateCall)]

\* FetchNode.execute
execute(self, state, env) ==
    LET input_keys == get_input_keys(self, state)
    IN IF \E i \in 1..Len(input_keys) : state[input_keys[i]].tag = "absent"
       THEN Finish(self, state, Raised("KeyError", <<>>))
       ELSE LET source == state[input_keys[1]].str
                arm == Branch(self, source)
                br == CASE arm = "literal" -> LiteralBranch(source)
                        [] arm = "local" -> LocalBranch(source, env)
                        [] arm = "static" -> StaticBranch(source, env)
                        [] OTHER -> DynamicBranch(self, source, env)
            IN Finish(self, state, br)

\* ---------------------------------------------------------------- machine
VARIABLES
    ctor,       \* the arguments the node was constructed with
    self,       \* the node object
    state,      \* the pipeline's state map
    called,     \* execute has been called at least once
    had_output, \* the output key was present when the last execute began
    raised,     \* the exception the last execute left with, if any
    ret,        \* the mapping the last execute returned, if it returned
    calls       \* capability calls and the state write of the last execute

vars == <<ctor, self, state, called, had_output, raised, ret, calls>>

OutputKey == "doc"

InitialStates ==
    { [k \in Keys |->
          IF k = input THEN v
          ELSE IF k = "parsed_doc" THEN StrValue(<<"x">>)
          ELSE NoValue]
      : input \in InputExprs,
        v \in {NoValue} \cup {StrValue(r) : r \in References} }

Init ==
    /\ ctor \in [input : InputExprs, output : {<<OutputKey>>},
                 node_config : NodeConfigs]
    /\ self = FetchNode_init(ctor.input, ctor.output, ctor.node_config)
    /\ state \in {s \in InitialStates :
                    \A k \in InputExprs \ {ctor.input} : s[k] = NoValue}
    /\ called = FALSE
    /\ had_output = FALSE
    /\ raised = Absent
    /\ ret = Absent
    /\ calls = <<>>

Execute(env) ==
    LET r == execute(self, state, env)
    IN /\ state' = r.state
       /\ raised' = r.raised
       /\ ret' = r.ret
       /\ calls' = r.calls
       /\ called' = TRUE
       /\ had_output' = (state[self.output[1]].tag # "absent")
       /\ UNCHANGED <<ctor, self>>

Next == \E env \in Envs : Execute(env)

Spec == Init /\ [][Next]_vars

\* ---------------------------------------------------------------- properties
\* the reference the last execute read, and what kind of call it was
HasSource == state[ctor.input].tag = "str"
Source == state[ctor.input].str
Generic == ctor.input \notin {"json_dir", "xml_dir", "csv_dir"}
HasScheme(ref) == StartsWith(ref, HTTP_SCHEME) \/ StartsWith(ref, HTTPS_SCHEME)
IsRemoteUrl == called /\ Generic /\ HasSource /\ HasScheme(Source)

\* the configuration passed at construction selects the static strategy
UseSoupConfigured ==
    \/ ctor.node_config = Absent
    \/ ctor.node_config[1].useSoup \in {Absent, Some(TRUE)}

Count(op) == Cardinality({i \in DOMAIN calls : calls[i].op = op})
Written == state[OutputKey].docs

\* the href values of a body's anchors, in document order
RECURSIVE HrefsOf(_)
HrefsOf(body) ==
    IF body = <<>> THEN <<>>
    ELSE LET front == HrefsOf(SubSeq(body, 1, Len(body) - 1))
             last == body[Len(body)]
         IN IF last.name = "a" /\ last.href # Absent
            THEN Append(front, last.href[1])
            ELSE front

\* C1: on a generic remote URL with useSoup true, a GET answered with a status
\* other than 200 ends the call in a FetchError carrying the URL and that status
C1_Non200RaisesFetchError ==
    \A i \in DOMAIN calls :
        ( /\ IsRemoteUrl
          /\ UseSoupConfigured
          /\ calls[i].op = "get"
          /\ calls[i].status # Absent
          /\ calls[i].status[1] # 200 )
        => /\ raised # Absent
           /\ raised[1].type = "FetchError"
           /\ raised[1].url = Some(Source)
           /\ raised[1].status = calls[i].status

\* C2: whenever a call to execute fails, the state map is exactly as it was
\* before the call
C2_FailureLeavesState == [][raised' # Absent => state' = state]_vars

\* a call failed although an earlier one had written the output key
C2_Witness ==
    /\ called
    /\ raised # Absent
    /\ had_output
    /\ state[OutputKey].tag = "docs"

\* C3: execute changes no key but the output key, and the mapping it returns
\* is the state it was given
C3_OnlyOutputKeyChanges ==
    [][called' =>
        /\ \A k \in Keys \ {ctor.output[1]} : state'[k] = state[k]
        /\ raised' = Absent => ret' = Some(state')]_vars

\* a call returned, having written the output key beside an unrelated entry
C3_Witness ==
    /\ called
    /\ raised = Absent
    /\ ret = Some(state)
    /\ state[OutputKey].tag = "docs"
    /\ state["parsed_doc"].tag = "str"
    /\ HasSource

\* C4: whenever the output key is present it holds a list of exactly one
\* Document
C4_OneDocument ==
    state[OutputKey].tag # "absent"
    => /\ state[OutputKey].tag = "docs"
       /\ Len(Written) = 1
       /\ DOMAIN Written[1] = {"page_content", "metadata"}

\* a call succeeded on a state whose output key was already written
C4_Witness ==
    /\ called
    /\ raised = Absent
    /\ had_output
    /\ Len(Written) = 1

\* C5: with input kind json_dir, xml_dir or csv_dir no fetcher and no Cleaner
\* is called and the document is the reference verbatim, source local_dir
C5_LiteralVerbatim ==
    (called /\ ~Generic /\ HasSource)
    => /\ raised = Absent
       /\ Count("get") = 0
       /\ Count("load") = 0
       /\ Count("clean") = 0
       /\ Written = <<[page_content |-> [cleaned |-> FALSE,
                                         markup |-> Text(Source),
                                         links |-> <<>>],
                       metadata |-> {<<"source", "local_dir">>}]>>

\* a literal kind was executed on a reference that begins with http://
C5_Witness ==
    /\ called
    /\ ~Generic
    /\ HasSource
    /\ HasScheme(Source)
    /\ state[OutputKey].tag = "docs"

\* C6: with a generic input kind, a reference that does not begin with http://
\* or https:// is fetched by neither fetcher and is written as clean(reference)
\* with source local_dir
C6_NoSchemeIsLocal ==
    (called /\ Generic /\ HasSource /\ ~HasScheme(Source))
    => /\ Count("get") = 0
       /\ Count("load") = 0
       /\ raised = Absent =>
            Written = <<[page_content |-> [cleaned |-> TRUE,
                                           markup |-> Text(Source),
                                           links |-> <<>>],
                         metadata |-> {<<"source", "local_dir">>}]>>

\* C7: on the dynamic path the one render call has the configured endpoint as
\* its proxy, and no proxy when no endpoint is configured
C7_EndpointIsProxy ==
    ( /\ IsRemoteUrl
      /\ ctor.node_config # Absent
      /\ ctor.node_config[1].useSoup = Some(FALSE) )
    => /\ Count("load") = 1
       /\ \A i \in DOMAIN calls :
            calls[i].op = "load"
            => calls[i].proxy = ctor.node_config[1].endpoint

\* C8: on the static path with status 200 the Cleaner receives the prettified
\* body and the hrefs of its anchors in document order, duplicates kept and
\* anchors without href skipped, and the document content is that clean result
C8_LinksInDocumentOrder ==
    \A i \in DOMAIN calls :
        ( /\ IsRemoteUrl
          /\ UseSoupConfigured
          /\ calls[i].op = "get"
          /\ calls[i].status = Some(200) )
        => LET body == calls[i].result[1].elems
               cleaned == [cleaned |-> TRUE,
                           markup |-> [kind |-> "prettified", chars |-> <<>>,
                                       elems |-> body],
                           links |-> HrefsOf(body)]
           IN /\ Count("clean") = 1
              /\ \A j \in DOMAIN calls :
                    calls[j].op = "clean" => calls[j].content = cleaned
              /\ raised = Absent => Written[1].page_content = cleaned

\* the body with anchors /a then /b was fetched and its links written
C8_Witness ==
    /\ IsRemoteUrl
    /\ raised = Absent
    /\ \E i \in DOMAIN calls :
        /\ calls[i].op = "get"
        /\ calls[i].result = Some(Html(<<[name |-> "a", href |-> Some("/a")],
                                         [name |-> "a", href |-> Some("/b")]>>))
    /\ Written[1].page_content.links = <<"/a", "/b">>

\* C9: on a remote URL exactly one fetch capability is called, once: the GET
\* when useSoup is true or left to its default, the render otherwise, also
\* when the fetch fails
C9_OneFetchOnce ==
    IsRemoteUrl
    => /\ \A i \in DOMAIN calls :
            calls[i].op \in {"get", "load"} => calls[i].url = Source
       /\ IF UseSoupConfigured
          THEN Count("get") = 1 /\ Count("load") = 0
          ELSE Count("load") = 1 /\ Count("get") = 0

\* a GET on a node built without node_config failed and nothing followed it
C9_Witness ==
    /\ IsRemoteUrl
    /\ ctor.node_config = Absent
    /\ raised # Absent
    /\ Count("get") = 1
    /\ calls[Len(calls)].op = "get"

\* C10: a successful execute on a remote URL fetches, then cleans the fetched
\* markup, then writes the state, and the content written is that clean result
C10_FetchCleanWrite ==
    (IsRemoteUrl /\ raised = Absent)
    => /\ Len(calls) = 3
       /\ calls[1].op \in {"get", "load"}
       /\ calls[1].result # Absent
       /\ calls[2].op = "clean"
       /\ calls[3].op = "update"
       /\ calls[2].content.cleaned
       /\ calls[2].content.markup =
            IF calls[1].op = "get"
            THEN [kind |-> "prettified", chars |-> <<>>,
                  elems |-> calls[1].result[1].elems]
            ELSE calls[1].result[1]
       /\ Written[1].page_content = calls[2].content

\* a rendered page was fetched, cleaned and written
C10_Witness ==
    /\ IsRemoteUrl
    /\ raised = Absent
    /\ Len(calls) = 3
    /\ calls[1].op = "load"
    /\ Written[1].page_content.cleaned

====
